---------------------------- MODULE Spec2Model ----------------------------
(***************************************************************************)
(* Model of the crossword contracts of EkaterinaAbramova/crossword_nft.     *)
(*                                                                         *)
(*   contract/src/lib.rs  the hash variant: guess_solution compares         *)
(*                        hex(sha256(candidate)) with the stored string     *)
(*   src/lib.rs           the plaintext variant: guess_solution compares    *)
(*                        the candidate itself with the stored string       *)
(*                                                                         *)
(* A Rust String is modelled as the sequence of its bytes (all strings used *)
(* here are ASCII).  A 32-bit word of SHA-256 is the pair <<hi, lo>> of its *)
(* 16-bit halves, so that every intermediate value stays inside TLC's       *)
(* integers while the arithmetic is still done modulo 2^32.                 *)
(***************************************************************************)
EXTENDS Integers, Sequences, FiniteSets, TLC

(***************************************************************************)
(* Bounds of the model.                                                    *)
(***************************************************************************)
\* guess_solution calls made on one contract instance (length of its log)
MaxGuesses == 3

(***************************************************************************)
(* env::sha256 (FIPS 180-4) and hex::encode.                               *)
(***************************************************************************)
Pow2(n) == 2 ^ n

RECURSIVE Xor16(_, _)
Xor16(a, b) ==
  IF a = 0 THEN b
  ELSE IF b = 0 THEN a
  ELSE ((a + b) % 2) + 2 * Xor16(a \div 2, b \div 2)

RECURSIVE And16(_, _)
And16(a, b) ==
  IF a = 0 \/ b = 0 THEN 0
  ELSE ((a % 2) * (b % 2)) + 2 * And16(a \div 2, b \div 2)

Not16(a) == 65535 - a

WXor(x, y) == << Xor16(x[1], y[1]), Xor16(x[2], y[2]) >>
WAnd(x, y) == << And16(x[1], y[1]), And16(x[2], y[2]) >>
WNot(x) == << Not16(x[1]), Not16(x[2]) >>

\* wrapping_add on u32
WAdd(x, y) ==
  LET lo == x[2] + y[2]
      hi == x[1] + y[1] + (lo \div 65536)
  IN  << hi % 65536, lo % 65536 >>

\* rotate_right on u32, 0 <= n < 32
RotR(x, n) ==
  LET y == IF n >= 16 THEN << x[2], x[1] >> ELSE x
      k == n % 16
  IN  << (y[1] \div Pow2(k)) + (y[2] % Pow2(k)) * Pow2(16 - k),
         (y[2] \div Pow2(k)) + (y[1] % Pow2(k)) * Pow2(16 - k) >>

\* x >> n on u32, 0 <= n < 16
ShR(x, n) ==
  << x[1] \div Pow2(n),
     (x[2] \div Pow2(n)) + (x[1] % Pow2(n)) * Pow2(16 - n) >>

Ch(x, y, z) == WXor(WAnd(x, y), WAnd(WNot(x), z))
Maj(x, y, z) == WXor(WXor(WAnd(x, y), WAnd(x, z)), WAnd(y, z))
BigSigma0(x) == WXor(WXor(RotR(x, 2), RotR(x, 13)), RotR(x, 22))
BigSigma1(x) == WXor(WXor(RotR(x, 6), RotR(x, 11)), RotR(x, 25))
SmallSigma0(x) == WXor(WXor(RotR(x, 7), RotR(x, 18)), ShR(x, 3))
SmallSigma1(x) == WXor(WXor(RotR(x, 17), RotR(x, 19)), ShR(x, 10))

Sha256K ==
  <<
    <<17034, 12184>>, <<28983, 17553>>, <<46528, 64463>>, <<59829, 56229>>,
    <<14678, 49755>>, <<23025, 4593>>, <<37439, 33444>>, <<43804, 24277>>,
    <<55303, 43672>>, <<4739, 23297>>, <<9265, 34238>>, <<21772, 32195>>,
    <<29374, 23924>>, <<32990, 45566>>, <<39900, 1703>>, <<49563, 61812>>,
    <<58523, 27073>>, <<61374, 18310>>, <<4033, 40390>>, <<9228, 41420>>,
    <<11753, 11375>>, <<19060, 33962>>, <<23728, 43484>>, <<30457, 35034>>,
    <<38974, 20818>>, <<43057, 50797>>, <<45059, 10184>>, <<48985, 32711>>,
    <<50912, 3059>>, <<54695, 37191>>, <<1738, 25425>>, <<5161, 10599>>,
    <<10167, 2693>>, <<11803, 8504>>, <<19756, 28156>>, <<21304, 3347>>,
    <<25866, 29524>>, <<30314, 2747>>, <<33218, 51502>>, <<37490, 11397>>,
    <<41663, 59553>>, <<43034, 26187>>, <<49739, 35696>>, <<51052, 20899>>,
    <<53650, 59417>>, <<54937, 1572>>, <<62478, 13701>>, <<4202, 41072>>,
    <<6564, 49430>>, <<7735, 27656>>, <<10056, 30540>>, <<13488, 48309>>,
    <<14620, 3251>>, <<20184, 43594>>, <<23452, 51791>>, <<26670, 28659>>,
    <<29839, 33518>>, <<30885, 25455>>, <<33992, 30740>>, <<36039, 520>>,
    <<37054, 65530>>, <<42064, 27883>>, <<48889, 41975>>, <<50801, 30962>> >>

Sha256H0 ==
  <<
    <<27145, 58983>>, <<47975, 44677>>, <<15470, 62322>>, <<42319, 62778>>,
    <<20750, 21119>>, <<39685, 26764>>, <<8067, 55723>>, <<23520, 52505>> >>

\* the message followed by 0x80, zeros up to 56 mod 64, and the bit length
\* as a 64-bit big-endian integer
Sha256Pad(bytes) ==
  LET n == Len(bytes)
      zeros == (119 - n) % 64
      bits == 8 * n
  IN  bytes \o << 128 >> \o [i \in 1..zeros |-> 0]
        \o << 0, 0, 0, 0,
              (bits \div 16777216) % 256, (bits \div 65536) % 256,
              (bits \div 256) % 256, bits % 256 >>

\* the 16 big-endian words of the 64-byte block starting after byte off
Sha256Block(p, off) ==
  [t \in 1..16 |->
     << p[off + 4 * t - 3] * 256 + p[off + 4 * t - 2],
        p[off + 4 * t - 1] * 256 + p[off + 4 * t] >>]

\* the message schedule: 16 words extended to 64
RECURSIVE Sha256Schedule(_)
Sha256Schedule(w) ==
  IF Len(w) = 64 THEN w
  ELSE LET t == Len(w) + 1
       IN  Sha256Schedule(
             Append(w, WAdd(WAdd(SmallSigma1(w[t - 2]), w[t - 7]),
                            WAdd(SmallSigma0(w[t - 15]), w[t - 16]))))

\* The 64 rounds of the compression function.  The working variables form
\* two shift registers: after round t, a..d are the last four entries of as
\* (newest last) and e..h the last four entries of es.
RECURSIVE Sha256Rounds(_, _, _)
Sha256Rounds(as, es, w) ==
  IF Len(as) = 68 THEN << as, es >>
  ELSE LET n == Len(as)
           t == n - 3
           t1 == WAdd(WAdd(WAdd(es[n - 3], BigSigma1(es[n])),
                           Ch(es[n], es[n - 1], es[n - 2])),
                      WAdd(Sha256K[t], w[t]))
           t2 == WAdd(BigSigma0(as[n]), Maj(as[n], as[n - 1], as[n - 2]))
       IN  Sha256Rounds(Append(as, WAdd(t1, t2)),
                        Append(es, WAdd(as[n - 3], t1)), w)

Sha256Compress(h, block) ==
  LET r == Sha256Rounds(<< h[4], h[3], h[2], h[1] >>,
                        << h[8], h[7], h[6], h[5] >>, Sha256Schedule(block))
  IN  [i \in 1..8 |->
         WAdd(h[i], IF i <= 4 THEN r[1][69 - i] ELSE r[2][73 - i])]

RECURSIVE Sha256Blocks(_, _, _)
Sha256Blocks(h, p, off) ==
  IF off >= Len(p) THEN h
  ELSE Sha256Blocks(Sha256Compress(h, Sha256Block(p, off)), p, off + 64)

\* env::sha256: the 32 bytes of the digest
sha256(bytes) ==
  LET h == Sha256Blocks(Sha256H0, Sha256Pad(bytes), 0)
  IN  [i \in 1..32 |->
         LET word == h[(i + 3) \div 4]
             half == IF ((i - 1) % 4) < 2 THEN word[1] ELSE word[2]
         IN  IF i % 2 = 1 THEN half \div 256 ELSE half % 256]

\* one lowercase hexadecimal digit, as its ASCII code
HexDigit(n) == IF n < 10 THEN 48 + n ELSE 87 + n

\* hex::encode: two lowercase digits per byte, high nibble first
hex_encode(bytes) ==
  [i \in 1..(2 * Len(bytes)) |->
     LET b == bytes[(i + 1) \div 2]
     IN  HexDigit(IF i % 2 = 1 THEN b \div 16 ELSE b % 16)]

(***************************************************************************)
(* The strings of the sources.                                             *)
(***************************************************************************)
\* "You guessed right!"
YouGuessedRight ==
  << 89, 111, 117, 32, 103, 117, 101, 115, 115, 101, 100, 32, 114, 105, 103,
     104, 116, 33 >>

\* "Try again."
TryAgain == << 84, 114, 121, 32, 97, 103, 97, 105, 110, 46 >>

\* "" (String::default())
EmptyString == << >>

\* "near nomicon ref finance"
NearNomicon ==
  << 110, 101, 97, 114, 32, 110, 111, 109, 105, 99, 111, 110, 32, 114, 101,
     102, 32, 102, 105, 110, 97, 110, 99, 101 >>

\* "wrong answer here"
WrongAnswer ==
  << 119, 114, 111, 110, 103, 32, 97, 110, 115, 119, 101, 114, 32, 104, 101,
     114, 101 >>

\* "69c2feb084439956193f4c21936025f14a5a5a78979d67ae34762e18a7206a0f"
NearNomiconHash ==
  << 54, 57, 99, 50, 102, 101, 98, 48, 56, 52, 52, 51, 57, 57, 53, 54,
     49, 57, 51, 102, 52, 99, 50, 49, 57, 51, 54, 48, 50, 53, 102, 49,
     52, 97, 53, 97, 53, 97, 55, 56, 57, 55, 57, 100, 54, 55, 97, 101,
     51, 52, 55, 54, 50, 101, 49, 56, 97, 55, 50, 48, 54, 97, 48, 102 >>

\* the same digest written with the uppercase digits A..F
ToUpper(s) == [i \in 1..Len(s) |-> IF s[i] >= 97 /\ s[i] <= 122 THEN s[i] - 32 ELSE s[i]]
NearNomiconHashUpper == ToUpper(NearNomiconHash)

\* "e3b0c44298fc1c149afbf4c8996fb92427ae41e4649b934ca495991b7852b855"
EmptyStringHash ==
  << 101, 51, 98, 48, 99, 52, 52, 50, 57, 56, 102, 99, 49, 99, 49, 52,
     57, 97, 102, 98, 102, 52, 99, 56, 57, 57, 54, 102, 98, 57, 50, 52,
     50, 55, 97, 101, 52, 49, 101, 52, 54, 52, 57, 98, 57, 51, 52, 99,
     97, 52, 57, 53, 57, 57, 49, 98, 55, 56, 53, 50, 98, 56, 53, 53 >>

\* the candidates callers submit to guess_solution
Candidates == { NearNomicon, WrongAnswer, EmptyString, NearNomiconHash }

\* the strings callers pass to new
Solutions ==
  { NearNomiconHash, NearNomiconHashUpper, EmptyStringHash, EmptyString,
    NearNomicon }

\* hex::encode(env::sha256(s.as_bytes())) of every candidate, computed once
HexSha256 == [s \in Candidates |-> hex_encode(sha256(s))]

(***************************************************************************)
(* The contract: struct Contract and its methods.                          *)
(***************************************************************************)
\* struct Contract { crossword_solution: String }
Contract == [crossword_solution : Solutions \cup { EmptyString }]

\* #[derive(Default)]: String::default() is the empty string
Default == [crossword_solution |-> EmptyString]

\* new changing the case of the solution it is given
new_upper(solution) == [crossword_solution |-> ToUpper(solution)]

\* pub fn new(solution: String) -> Self
new(solution) == [crossword_solution |-> solution]

\* get_solution returning the string in upper case
get_solution_upper(self) == ToUpper(self.crossword_solution)

\* pub fn get_solution(&self) -> String
get_solution(self) == self.crossword_solution

\* guess_solution comparing the two hex strings without regard to case
guess_solution_ignore_case(self, solution) ==
  LET hashed_input_hex == HexSha256[solution]
  IN  IF ToUpper(hashed_input_hex) = ToUpper(self.crossword_solution)
      THEN [self |-> self, logs |-> << YouGuessedRight >>, ret |-> TRUE]
      ELSE [self |-> self, logs |-> << TryAgain >>, ret |-> FALSE]

\* guess_solution with the two log strings exchanged
guess_solution_swapped_logs(self, solution) ==
  LET hashed_input_hex == HexSha256[solution]
  IN  IF hashed_input_hex = self.crossword_solution
      THEN [self |-> self, logs |-> << TryAgain >>, ret |-> TRUE]
      ELSE [self |-> self, logs |-> << YouGuessedRight >>, ret |-> FALSE]

\* guess_solution logging nothing for a wrong guess
guess_solution_silent_failure(self, solution) ==
  LET hashed_input_hex == HexSha256[solution]
  IN  IF hashed_input_hex = self.crossword_solution
      THEN [self |-> self, logs |-> << YouGuessedRight >>, ret |-> TRUE]
      ELSE [self |-> self, logs |-> << >>, ret |-> FALSE]

\* guess_solution keeping the digest of a wrong guess in self
guess_solution_keeps_guess(self, solution) ==
  LET hashed_input_hex == HexSha256[solution]
  IN  IF hashed_input_hex = self.crossword_solution
      THEN [self |-> self, logs |-> << YouGuessedRight >>, ret |-> TRUE]
      ELSE [self |-> [self EXCEPT !.crossword_solution = hashed_input_hex],
            logs |-> << TryAgain >>, ret |-> FALSE]

\* guess_solution logging the candidate of a wrong guess
guess_solution_logs_candidate(self, solution) ==
  LET hashed_input_hex == HexSha256[solution]
  IN  IF hashed_input_hex = self.crossword_solution
      THEN [self |-> self, logs |-> << YouGuessedRight >>, ret |-> TRUE]
      ELSE [self |-> self, logs |-> << solution >>, ret |-> FALSE]

\* guess_solution clearing the solution once it has been guessed
guess_solution_one_shot(self, solution) ==
  LET hashed_input_hex == HexSha256[solution]
  IN  IF hashed_input_hex = self.crossword_solution
      THEN [self |-> [self EXCEPT !.crossword_solution = EmptyString],
            logs |-> << YouGuessedRight >>, ret |-> TRUE]
      ELSE [self |-> self, logs |-> << TryAgain >>, ret |-> FALSE]

\* contract/src/lib.rs: pub fn guess_solution(&mut self, solution: String) -> bool
\* self is the contract when the method returns, logs the strings it gave to
\* env::log_str, ret the value it returned
guess_solution_lockout(self, solution) ==
  LET hashed_input_hex == HexSha256[solution]
  IN  IF hashed_input_hex = self.crossword_solution
      THEN [self |-> self, logs |-> << YouGuessedRight >>, ret |-> TRUE]
      ELSE [self |-> Default, logs |-> << TryAgain >>, ret |-> FALSE]

guess_solution_unhashed(self, solution) ==
  IF solution = self.crossword_solution
  THEN [self |-> self, logs |-> << YouGuessedRight >>, ret |-> TRUE]
  ELSE [self |-> self, logs |-> << TryAgain >>, ret |-> FALSE]

guess_solution(self, solution) ==
  LET hashed_input_hex == HexSha256[solution]
  IN  IF hashed_input_hex = self.crossword_solution
      THEN [self |-> self, logs |-> << YouGuessedRight >>, ret |-> TRUE]
      ELSE [self |-> self, logs |-> << TryAgain >>, ret |-> FALSE]

\* src/lib.rs: pub fn guess_solution(&mut self, solution: String)
plain_guess_solution_hashed(self, solution) ==
  IF HexSha256[solution] = self.crossword_solution
  THEN [self |-> self, logs |-> << YouGuessedRight >>]
  ELSE [self |-> self, logs |-> << TryAgain >>]

plain_guess_solution(self, solution) ==
  IF solution = self.crossword_solution
  THEN [self |-> self, logs |-> << YouGuessedRight >>]
  ELSE [self |-> self, logs |-> << TryAgain >>]

(***************************************************************************)
(* A deployed contract.  #[near_bindgen] exports every pub fn as a call on  *)
(* the account: a method with a receiver runs on the state read from        *)
(* storage, or on Contract::default() when nothing was stored, and a        *)
(* &mut self method has the contract written back when it returns; #[init]  *)
(* panics when a state is already stored and stores the value new returns.  *)
(***************************************************************************)
VARIABLES
  variant,   \* the crate deployed: "hash" (contract/src/lib.rs) or "plain" (src/lib.rs)
  storage,   \* the stored contract: << >> before any state is written, else << c >>
  logs,      \* the strings given to env::log_str, in order (get_logs())
  last,      \* the last call made: its method, argument and outcome
  calls,     \* history: for every guess_solution call, the stored string it read
             \* and the candidate it was given
  got,       \* history: << v >> when get_solution returned v and new has not
             \* stored a contract since, else << >>
  new_called, \* history: new has been called on this instance
  pair       \* the two crates driven side by side by direct calls, as their
             \* unit tests call them (idle while one crate is deployed)

vars == << variant, storage, logs, last, calls, got, new_called, pair >>

state_exists == storage # << >>

\* env::state_read().unwrap_or_default()
state_read == IF state_exists THEN storage[1] ELSE Default

NoCall ==
  [op |-> "deploy", arg |-> EmptyString, panicked |-> FALSE,
   ret |-> FALSE, value |-> EmptyString]

\* no contract value constructed yet, nothing logged
NoPair ==
  [op |-> "none", c |-> EmptyString, prev |-> << >>,
   hash |-> << >>, plain |-> << >>,
   hash_logs |-> << >>, plain_logs |-> << >>, inputs |-> << >>]

Init ==
  /\ pair = NoPair
  /\ variant \in { "hash", "plain" }
  /\ storage = << >>
  /\ logs = << >>
  /\ last = NoCall
  /\ calls = << >>
  /\ got = << >>
  /\ new_called = FALSE

\* new exported without the check that no state is stored yet
Call_new_unguarded(solution) ==
  /\ last' = [NoCall EXCEPT !.op = "new", !.arg = solution]
  /\ storage' = << new(solution) >>
  /\ got' = << >>
  /\ new_called' = TRUE
  /\ UNCHANGED << pair, variant, logs, calls >>

\* near call <account> new '{"solution": ...}'
Call_new(solution) ==
  /\ IF state_exists
     THEN \* "The contract has already been initialized"
          /\ last' = [NoCall EXCEPT !.op = "new", !.arg = solution,
                                    !.panicked = TRUE]
          /\ UNCHANGED << storage, got >>
     ELSE /\ last' = [NoCall EXCEPT !.op = "new", !.arg = solution]
          /\ storage' = << new(solution) >>
          /\ got' = << >>
  /\ new_called' = TRUE
  /\ UNCHANGED << pair, variant, logs, calls >>

\* near view <account> get_solution (contract/src/lib.rs only)
Call_get_solution ==
  /\ variant = "hash"
  /\ last' = [NoCall EXCEPT !.op = "get_solution",
                            !.value = get_solution(state_read)]
  /\ got' = << get_solution(state_read) >>
  /\ UNCHANGED << pair, variant, storage, logs, calls, new_called >>

\* guess_solution exported so that it panics until new has stored a contract
Call_guess_solution_requires_init(solution) ==
  /\ variant = "hash"
  /\ Len(calls) < MaxGuesses
  /\ IF state_exists
     THEN LET r == guess_solution(state_read, solution)
          IN  /\ storage' = << r.self >>
              /\ logs' = logs \o r.logs
              /\ last' = [NoCall EXCEPT !.op = "guess_solution",
                                        !.arg = solution, !.ret = r.ret]
     ELSE /\ last' = [NoCall EXCEPT !.op = "guess_solution", !.arg = solution,
                                    !.panicked = TRUE]
          /\ UNCHANGED << storage, logs >>
  /\ calls' = Append(calls, [stored |-> state_read.crossword_solution,
                             solution |-> solution])
  /\ UNCHANGED << pair, variant, got, new_called >>

\* near call <account> guess_solution '{"solution": ...}' on contract/src/lib.rs
Call_guess_solution(solution) ==
  /\ variant = "hash"
  /\ Len(calls) < MaxGuesses
  /\ LET r == guess_solution(state_read, solution)
     IN  /\ storage' = << r.self >>
         /\ logs' = logs \o r.logs
         /\ last' = [NoCall EXCEPT !.op = "guess_solution", !.arg = solution,
                                   !.ret = r.ret]
  /\ calls' = Append(calls, [stored |-> state_read.crossword_solution,
                             solution |-> solution])
  /\ UNCHANGED << pair, variant, got, new_called >>

\* near call <account> guess_solution '{"solution": ...}' on src/lib.rs
Call_plain_guess_solution(solution) ==
  /\ variant = "plain"
  /\ Len(calls) < MaxGuesses
  /\ LET r == plain_guess_solution(state_read, solution)
     IN  /\ storage' = << r.self >>
         /\ logs' = logs \o r.logs
         /\ last' = [NoCall EXCEPT !.op = "guess_solution", !.arg = solution]
  /\ calls' = Append(calls, [stored |-> state_read.crossword_solution,
                             solution |-> solution])
  /\ UNCHANGED << pair, variant, got, new_called >>

Next ==
  \/ \E solution \in Solutions : Call_new(solution)
  \/ Call_get_solution
  \/ \E solution \in Candidates : Call_guess_solution(solution)
  \/ \E solution \in Candidates : Call_plain_guess_solution(solution)

Spec == Init /\ [][Next]_vars

\* ---------------------------------------------------------------------------
\* The methods called directly on Contract values, as the unit tests
\* check_guess_solution of the two crates do (no export wrapper, no storage):
\* pair.hash is the contract of contract/src/lib.rs and pair.plain the one of
\* src/lib.rs, both constructed from the same solution; every candidate goes
\* to the first as it is and to the second as its hex sha256 digest.

PairInit ==
  /\ pair = NoPair
  /\ variant = "both"
  /\ storage = << >>
  /\ logs = << >>
  /\ last = NoCall
  /\ calls = << >>
  /\ got = << >>
  /\ new_called = FALSE

\* Contract::new that leaves an existing contract value in place
Pair_new_once(solution) ==
  /\ pair' = [pair EXCEPT !.op = "new", !.c = solution, !.prev = pair.hash,
                          !.hash = IF pair.hash = << >>
                                   THEN << new(solution) >> ELSE pair.hash,
                          !.plain = IF pair.plain = << >>
                                    THEN << new(solution) >> ELSE pair.plain]
  /\ UNCHANGED << variant, storage, logs, last, calls, got, new_called >>

\* let mut contract = Contract::new(solution), in both crates
Pair_new(solution) ==
  /\ pair' = [pair EXCEPT !.op = "new", !.c = solution, !.prev = pair.hash,
                          !.hash = << new(solution) >>,
                          !.plain = << new(solution) >>]
  /\ UNCHANGED << variant, storage, logs, last, calls, got, new_called >>

\* contract.guess_solution(solution) in contract/src/lib.rs and
\* contract.guess_solution(hex(sha256(solution))) in src/lib.rs
Pair_guess_solution(solution) ==
  /\ pair.hash # << >>
  /\ Len(pair.inputs) < MaxGuesses
  /\ LET h == guess_solution(pair.hash[1], solution)
         p == plain_guess_solution(pair.plain[1], HexSha256[solution])
     IN  pair' = [pair EXCEPT !.op = "guess_solution",
                              !.hash = << h.self >>,
                              !.plain = << p.self >>,
                              !.hash_logs = pair.hash_logs \o h.logs,
                              !.plain_logs = pair.plain_logs \o p.logs,
                              !.inputs = Append(pair.inputs, solution)]
  /\ UNCHANGED << variant, storage, logs, last, calls, got, new_called >>

PairNext ==
  \/ \E solution \in Solutions : Pair_new(solution)
  \/ \E solution \in Candidates : Pair_guess_solution(solution)

PairSpec == PairInit /\ [][PairNext]_vars

(***************************************************************************)
(* Properties.                                                             *)
(***************************************************************************)
\* a step that is a guess_solution call
GuessStep == Len(calls') = Len(calls) + 1

\* the log string the match law of the deployed variant asks for
ExpectedLog(c) ==
  IF variant = "hash"
  THEN IF HexSha256[c.solution] = c.stored THEN YouGuessedRight ELSE TryAgain
  ELSE IF c.solution = c.stored THEN YouGuessedRight ELSE TryAgain

\* C1: hash variant: guess_solution(s) returns true exactly when
\* hex(sha256(s)) equals the stored string, compared with regard to case: it
\* accepts the pre-image of the stored digest and nothing else.
C1_ExactMatchLaw ==
  (variant = "hash" /\ last.op = "guess_solution") =>
    LET c == calls[Len(calls)]
    IN  /\ c.solution = last.arg
        /\ last.ret = (HexSha256[c.solution] = c.stored)
        /\ c.stored = NearNomiconHash => (last.ret <=> c.solution = NearNomicon)
        /\ c.stored = EmptyStringHash => (last.ret <=> c.solution = EmptyString)
        /\ c.stored \in { NearNomiconHashUpper, NearNomicon, EmptyString }
             => ~last.ret

\* the pre-image of the stored digest was accepted
C1_Witness ==
  /\ variant = "hash"
  /\ last.op = "guess_solution" /\ last.arg = NearNomicon /\ last.ret
  /\ storage = << new(NearNomiconHash) >>

\* C2: hash variant: a guess_solution call that returns true logs exactly
\* "You guessed right!", one that returns false logs exactly "Try again.",
\* and it logs nothing else.
C2_VerdictAndTagAgree ==
  [][ (variant = "hash" /\ GuessStep) =>
        logs' = Append(logs, IF last'.ret THEN YouGuessedRight ELSE TryAgain)
    ]_vars

\* a right guess and then a wrong one, each with its own tag
C2_Witness ==
  /\ variant = "hash"
  /\ last.op = "guess_solution" /\ ~last.ret
  /\ logs = << YouGuessedRight, TryAgain >>

\* C3: the log holds one entry per guess_solution call, in call order, the
\* i-th entry being the tag of the i-th call, and a step only ever appends
\* to it.
C3_LogOrderedAppendOnly ==
  /\ [](/\ Len(logs) = Len(calls)
        /\ \A i \in 1..Len(calls) : logs[i] = ExpectedLog(calls[i]))
  /\ [][ /\ Len(logs') >= Len(logs)
         /\ SubSeq(logs', 1, Len(logs)) = logs ]_vars

\* the scenario of tests::check_guess_solution, followed by one more guess
C3_Witness ==
  /\ variant = "hash"
  /\ Len(calls) = 3
  /\ calls[1] = [stored |-> NearNomiconHash, solution |-> WrongAnswer]
  /\ calls[2] = [stored |-> NearNomiconHash, solution |-> NearNomicon]
  /\ SubSeq(logs, 1, 2) = << TryAgain, YouGuessedRight >>

C5_DefaultNeverMatches ==
  [][ (~state_exists /\ GuessStep) =>
        /\ state_read.crossword_solution = EmptyString
        /\ logs' = Append(logs, TryAgain) ]_vars

\* C6: the first call of new initializes the instance (stated for the hash
\* variant and a non-empty solution), a later call of new panics and leaves
\* the stored string alone, and once a contract is stored its
\* crossword_solution never changes.
C6_SetExactlyOnce ==
  [][ /\ (variant = "hash" /\ last'.op = "new" /\ ~new_called
            /\ last'.arg # EmptyString) =>
           (~last'.panicked /\ storage' = << new(last'.arg) >>)
      /\ (last'.op = "new" /\ new_called /\ last' # last) =>
           (last'.panicked /\ storage' = storage)
      /\ state_exists =>
           /\ state_exists'
           /\ state_read'.crossword_solution = state_read.crossword_solution
    ]_vars

\* new panics exactly when a contract is already stored, else stores the
\* value it returns; a stored crossword_solution never changes
NewOnlyOnce ==
  [][ /\ (last'.op = "new" /\ last' # last) =>
           IF state_exists
           THEN last'.panicked /\ storage' = storage
           ELSE ~last'.panicked /\ storage' = << new(last'.arg) >>
      /\ state_exists =>
           /\ state_exists'
           /\ state_read'.crossword_solution = state_read.crossword_solution
    ]_vars

\* C7: whenever guess_solution accepts a candidate s, the stored string is
\* hex(sha256(s)) and not s itself (stated for the contracts new has
\* initialized with a non-empty string).
C7_NoPlaintextStored ==
  \A i \in 1..Len(calls) :
    (i <= Len(logs) /\ logs[i] = YouGuessedRight
       /\ calls[i].stored # EmptyString) =>
      /\ calls[i].stored = HexSha256[calls[i].solution]
      /\ calls[i].stored # calls[i].solution

\* C8: hash variant: what a guess_solution call shows is its bool and one of
\* the two fixed strings; two candidates with the same verdict give the same
\* log entry, and neither the candidate nor the pre-image of the stored
\* digest is logged.
C8_OutputsShowVerdictOnly ==
  variant = "hash" =>
    /\ \A s1 \in Candidates, s2 \in Candidates :
         LET r1 == guess_solution(state_read, s1)
             r2 == guess_solution(state_read, s2)
         IN  /\ r1.logs \in { << YouGuessedRight >>, << TryAgain >> }
             /\ r1.ret = r2.ret => r1.logs = r2.logs
             /\ \A k \in 1..Len(r1.logs) :
                  /\ r1.logs[k] # s1
                  /\ HexSha256[s2] = state_read.crossword_solution
                       => r1.logs[k] # s2
    /\ \A i \in 1..Len(calls), j \in 1..Len(calls) :
         (i <= Len(logs) /\ j <= Len(logs)
            /\ (HexSha256[calls[i].solution] = calls[i].stored)
                 = (HexSha256[calls[j].solution] = calls[j].stored))
           => logs[i] = logs[j]
    /\ \A i \in 1..Len(logs) : \A s \in Candidates : logs[i] # s

\* two different wrong candidates were guessed and logged alike
C8_Witness ==
  /\ variant = "hash"
  /\ storage = << new(NearNomiconHash) >>
  /\ Len(calls) = 2
  /\ calls[1].solution = WrongAnswer /\ calls[2].solution = NearNomiconHash
  /\ calls[1].stored = NearNomiconHash
  /\ logs = << TryAgain, TryAgain >>

\* C9: hash variant: a guess_solution call that repeats the candidate of the
\* call just before it returns the same bool and logs the same string.
C9_Deterministic ==
  [][ (variant = "hash" /\ GuessStep /\ last.op = "guess_solution"
         /\ last'.arg = last.arg) =>
        /\ last'.ret = last.ret
        /\ Len(logs') = Len(logs) + 1
        /\ logs # << >>
        /\ logs'[Len(logs')] = logs[Len(logs)] ]_vars

\* the right candidate was guessed twice in a row and accepted twice
C9_Witness ==
  /\ variant = "hash"
  /\ Len(calls) = 2
  /\ calls[1].solution = NearNomicon /\ calls[2].solution = NearNomicon
  /\ last.op = "guess_solution" /\ last.ret
  /\ logs = << YouGuessedRight, YouGuessedRight >>

\* C10: get_solution changes neither the storage nor the log, never panics,
\* returns the stored crossword_solution, and returns what the get_solution
\* call before it returned unless new stored a contract in between.
C10_GetSolutionPureRead ==
  [][ last'.op = "get_solution" =>
        /\ storage' = storage
        /\ logs' = logs
        /\ calls' = calls
        /\ ~last'.panicked
        /\ last'.value = state_read.crossword_solution
        /\ got # << >> => last'.value = got[1] ]_vars

\* get_solution returned the digest and guess_solution calls came after it
C10_Witness ==
  /\ got = << NearNomiconHash >>
  /\ last.op = "guess_solution" /\ last.ret
  /\ Len(calls) = 2
  /\ calls[1].stored = NearNomiconHash

C12_GuessIsTotal ==
  variant = "hash" =>
    /\ \A s \in Candidates : Len(HexSha256[s]) = 64
    /\ Len(calls) < MaxGuesses =>
         \A s \in Candidates : ENABLED Call_guess_solution(s)
    /\ last.op = "guess_solution" =>
         /\ ~last.panicked
         /\ last.ret \in BOOLEAN
         /\ Len(logs) = Len(calls)
         /\ state_exists

\* the empty candidate was guessed on an instance new never ran on
C12_Witness ==
  /\ variant = "hash"
  /\ ~new_called
  /\ last.op = "guess_solution" /\ last.arg = EmptyString
  /\ ~last.ret /\ ~last.panicked
  /\ calls = << [stored |-> EmptyString, solution |-> EmptyString] >>
  /\ logs = << TryAgain >>

\* C13: a call of new(c) that goes through stores exactly c, byte for byte,
\* and logs nothing; a get_solution call right after it returns c.
C13_NewRoundTrip ==
  [][ /\ (last'.op = "new" /\ ~last'.panicked /\ last' # last) =>
           /\ storage' = << [crossword_solution |-> last'.arg] >>
           /\ logs' = logs
      /\ (last.op = "new" /\ ~last.panicked /\ last'.op = "get_solution") =>
           last'.value = last.arg
    ]_vars

\* new stored the digest of the test and get_solution returned it
C13_Witness ==
  /\ variant = "hash"
  /\ storage = << new(NearNomiconHash) >>
  /\ last.op = "get_solution" /\ last.value = NearNomiconHash
  /\ logs = << >> /\ new_called

\* C15: plaintext variant (src/lib.rs): the i-th guess logs "You guessed
\* right!" exactly when its candidate is the stored string itself, and "Try
\* again." otherwise; the candidate is not hashed: with the digest of "near
\* nomicon ref finance" stored, the digest string is accepted and the
\* plaintext "near nomicon ref finance" is not.
C15_PlainMatchLaw ==
  variant = "plain" =>
    /\ Len(logs) = Len(calls)
    /\ \A i \in 1..Len(calls) :
         /\ logs[i] \in { YouGuessedRight, TryAgain }
         /\ logs[i] = YouGuessedRight <=> calls[i].solution = calls[i].stored
         /\ calls[i].stored = NearNomiconHash =>
              /\ calls[i].solution = NearNomiconHash => logs[i] = YouGuessedRight
              /\ calls[i].solution = NearNomicon => logs[i] = TryAgain

\* the test of src/lib.rs: a wrong string, then the stored string itself
C15_Witness ==
  /\ variant = "plain"
  /\ calls = << [stored |-> NearNomiconHash, solution |-> WrongAnswer],
                [stored |-> NearNomiconHash, solution |-> NearNomiconHash] >>
  /\ logs = << TryAgain, YouGuessedRight >>

\* C16: hash variant: a guess changes the verdict of no later guess, so a
\* verdict depends on the candidate and the stored string alone: after any
\* guess, right or wrong, every candidate gets the verdict it would have got
\* before it, and the verdict just returned is the comparison of the
\* candidate's digest with the stored string.
C16_HistoryIndependent ==
  [][ (variant = "hash" /\ GuessStep) =>
        /\ \A s \in Candidates :
             guess_solution(state_read', s).ret = guess_solution(state_read, s).ret
        /\ last'.ret = (HexSha256[last'.arg] = state_read'.crossword_solution)
    ]_vars

\* a wrong guess, then the right one accepted, then accepted once more
C16_Witness ==
  /\ variant = "hash"
  /\ Len(calls) = 3
  /\ calls[1].solution = WrongAnswer
  /\ calls[2].solution = NearNomicon /\ calls[3].solution = NearNomicon
  /\ logs = << TryAgain, YouGuessedRight, YouGuessedRight >>

C17_VariantsAgreeUnderHashing ==
  /\ pair.hash_logs = pair.plain_logs
  /\ Len(pair.hash_logs) = Len(pair.inputs)
  /\ pair.hash = pair.plain
  /\ pair.hash # << >> => pair.hash = << new(pair.c) >>

\* both crates' unit test at once: a wrong candidate, then the right one
C17_Witness ==
  /\ pair.c = NearNomiconHash
  /\ pair.inputs = << WrongAnswer, NearNomicon >>
  /\ pair.hash_logs = << TryAgain, YouGuessedRight >>
  /\ pair.plain_logs = << TryAgain, YouGuessedRight >>
  /\ pair.hash = << new(NearNomiconHash) >>
  /\ pair.plain = << new(NearNomiconHash) >>

=============================================================================
